---- MODULE Spec2Model ----
(***************************************************************************)
(* Xapian execution core: the abstract storage backend                     *)
(* (Xapian::Database::Internal, common/database.h) and the value-range     *)
(* posting list cursor (ValueRangePostList, matcher/valuerangepostlist.cc).*)
(*                                                                         *)
(* One backend and one cursor over it are modelled.  Every method call is  *)
(* one atomic action (the cursor is single-threaded); what the call        *)
(* returned, and the cursor state it started from, are kept in `call`.     *)
(***************************************************************************)
EXTENDS Integers, Sequences, FiniteSets, TLC

\* ---------------------------------------------------------------- bounds

\* Largest docid the backend ever assigns in a run.
MaxDoc == 3

\* Largest docid of a backend that is changed while a cursor is open
\* (at most MaxDoc).
MaxLiveDoc == 2

\* Changes made to the backend during the life of one cursor.
MaxChanges == 1

\* ------------------------------------------------------- values / strings

\* Byte strings are sequences of byte codes (here the digits of the text).
EmptyStr == << >>

\* Marks a docid that holds no document (never a byte string).
NoDoc == << -1 >>

\* The values stored at the slot the cursor filters on; the empty string
\* is how a document without a value at the slot reads.
DocValues == { EmptyStr, <<0, 5, 0>>, <<2, 0, 0>>, <<2, 5, 0>> }

\* The range bounds a cursor is built with.
BeginBounds == { EmptyStr, <<1, 0, 0>> }
EndBounds == { <<2, 0, 0>> }

Min(a, b) == IF a <= b THEN a ELSE b

\* std::string operator<= : lexicographic comparison of the bytes, a proper
\* prefix ordering before the longer string.
StrLE(a, b) ==
    \E k \in 0..Min(Len(a), Len(b)) :
        /\ \A i \in 1..k : a[i] = b[i]
        /\ \/ k = Len(a)
           \/ k < Len(a) /\ k < Len(b) /\ a[k + 1] < b[k + 1]

\* ------------------------------------------------------------------ state

VARIABLES
    build,            \* "release" | "debug" | "paranoid": which assertions are compiled in
    lazyMode,         \* how the backend treats open_document(did, lazy = true)
    docs,             \* backend: docid -> value at the slot, or NoDoc
    backend_lastdocid,\* backend: db->get_lastdocid()
    current,          \* cursor: ValueRangePostList::current
    db,               \* cursor: TRUE while ValueRangePostList::db is non-NULL
    begin,            \* cursor: lower bound of the range
    end,              \* cursor: upper bound of the range
    lastdocid,        \* cursor: lastdocid cached at construction
    db_size,          \* cursor: doccount cached at construction
    yielded,          \* docids returned so far by a run of next() calls only
    pure,             \* no cursor method other than next() was called so far
    call,             \* the last call: its arguments, its result, the state before it
    snapshot,         \* observer: the store when the cursor was constructed
    changes,          \* observer: number of changes made to the backend since
    nyield            \* observer: documents the cursor has reported as matches

vars == << build, lazyMode, docs, backend_lastdocid, current, db,
           begin, end, lastdocid, db_size, yielded, pure, call,
           snapshot, changes, nyield >>

config == << build, lazyMode, begin, end, lastdocid, db_size >>
backend == << docs, backend_lastdocid >>
cursor == << current, db >>

\* What an observer of a run records beside the program's own state: the
\* store as it was when the cursor was constructed, the changes made to the
\* backend since, and the number of documents the cursor has reported.
observers == << snapshot, changes, nyield >>

Builds == { "release", "debug", "paranoid" }

\* "eager": the lazy flag is ignored, a missing document is reported at open
\*          (the inmemory backend);
\* "read":  a missing document is reported when the handle is first read;
\* "empty": a lazily opened missing document reads as having no values.
LazyModes == { "eager", "read", "empty" }

DocIds == 1..MaxDoc

\* Docids handed to skip_to and check (0 is reserved for "no document").
Dids == 1..(MaxDoc + 1)

\* The weight arguments: next, skip_to and check never read theirs (the
\* parameters are unnamed, skip_to only hands w_min on to next), so one value
\* stands for all.
Weights == { 0 }

\* ---------------------------------------------------------------- backend

Exists(did) == did \in DOMAIN docs /\ docs[did] # NoDoc

get_doccount == Cardinality({ d \in DOMAIN docs : docs[d] # NoDoc })

\* open_document(did, lazy): a handle, or the DocNotFoundError condition.
\* A handle opened lazily has not been checked against the store.
open_document(did, lazy) ==
    IF lazy /\ lazyMode # "eager"
    THEN [found |-> TRUE, did |-> did, checked |-> FALSE]
    ELSE IF Exists(did)
         THEN [found |-> TRUE, did |-> did, checked |-> TRUE]
         ELSE [found |-> FALSE, did |-> did, checked |-> TRUE]

\* Document::Internal::get_value(valno) on a handle: the value, the empty
\* string when the slot holds none, or DocNotFoundError (found = FALSE).
get_value(doc) ==
    IF Exists(doc.did)
    THEN [found |-> TRUE, v |-> docs[doc.did]]
    ELSE IF lazyMode = "read"
         THEN [found |-> FALSE, v |-> EmptyStr]
         ELSE [found |-> TRUE, v |-> EmptyStr]

\* ------------------------------------------------------------ assertions

\* Assert(COND) is compiled in for debug and paranoid builds,
\* AssertParanoid(COND) for paranoid builds only.
AssertOn == build \in { "debug", "paranoid" }
AssertParanoidOn == build = "paranoid"

\* ------------------------------------------------- results of a call

\* What a cursor method leaves behind: the new current and db, the `valid`
\* out-parameter of check(), how the call ended ("none": it returned), and
\* the number of docids it examined (opened a document for).
Returned(cur, live, definite) ==
    [current |-> cur, db |-> live, valid |-> definite, failure |-> "none",
     examined |-> 0]

\* A failed Assert / AssertParanoid: Xapian::AssertionError is thrown.
AssertionFailed(cur, live) ==
    [current |-> cur, db |-> live, valid |-> FALSE, failure |-> "AssertionError",
     examined |-> 0]

\* A Xapian::DocNotFoundError leaving the method.
NotFoundEscapes(cur, live) ==
    [current |-> cur, db |-> live, valid |-> FALSE, failure |-> "DocNotFoundError",
     examined |-> 0]

\* db->open_document(...) through a NULL db: undefined behaviour.
NullDeref(cur) ==
    [current |-> cur, db |-> FALSE, valid |-> FALSE, failure |-> "UB",
     examined |-> 0]

\* One more docid was examined on the way to r.
Examined(r) == [r EXCEPT !.examined = @ + 1]

\* ------------------------------------------------- ValueRangePostList

\* InRange with the upper bound taken as exclusive.
InRange_exclusive_end(v) == StrLE(begin, v) /\ StrLE(v, end) /\ v # end

\* v >= begin && v <= end
InRange(v) == StrLE(begin, v) /\ StrLE(v, end)

\* TryDoc without the non-lazy open that confirms a document whose value
\* read as empty.
TryDoc_unconfirmed(c) ==
    LET doc == open_document(c, TRUE) IN
    IF ~doc.found THEN "notfound"
    ELSE LET r == get_value(doc) IN
         IF ~r.found THEN "notfound"
         ELSE IF InRange(r.v) THEN "match" ELSE "nomatch"

\* The body of the try block of next() for docid c:
\* "match" (return NULL), "nomatch" (fall out of the if), or
\* "notfound" (DocNotFoundError thrown by either open_document or get_value).
TryDoc(c) ==
    LET doc == open_document(c, TRUE) IN
    IF ~doc.found THEN "notfound"
    ELSE LET r == get_value(doc) IN
         IF ~r.found THEN "notfound"
         ELSE IF InRange(r.v)
              THEN IF r.v = EmptyStr /\ ~open_document(c, FALSE).found
                   THEN "notfound"
                   ELSE "match"
              ELSE "nomatch"

RECURSIVE scan(_)

\* next_catch without the handler: the exception leaves next().
next_catch_missing(c) == NotFoundEscapes(c, TRUE)

\* catch (const Xapian::DocNotFoundError &) { continue; }
next_catch(c) == scan(c)

RECURSIVE scan_stops_short(_)

\* scan with the loop test current + 1 < lastdocid: the last docid is never
\* examined.
scan_stops_short(cur) ==
    IF cur + 1 < lastdocid
    THEN LET c == cur + 1 IN
         IF ~db THEN NullDeref(c)
         ELSE LET t == TryDoc(c) IN
              IF t = "match" THEN Examined(Returned(c, TRUE, TRUE))
              ELSE Examined(scan_stops_short(c))
    ELSE Returned(cur, FALSE, TRUE)

\* while (current < lastdocid && ++current != 0) { try ... } db = NULL;
\* (cur < lastdocid leaves room for the increment in the unsigned docid
\* type, so ++current does not wrap and the test against 0 never fails.)
scan(cur) ==
    IF cur < lastdocid
    THEN LET c == cur + 1 IN
         IF c = 0 THEN Returned(c, FALSE, TRUE)
         ELSE IF ~db THEN NullDeref(c)
         ELSE LET t == TryDoc(c) IN
              IF t = "match" THEN Examined(Returned(c, TRUE, TRUE))
              ELSE IF t = "nomatch" THEN Examined(scan(c))
              ELSE Examined(next_catch(c))
    ELSE Returned(cur, FALSE, TRUE)

\* next_from without its Assert(db).
next_from_no_assert(cur) ==
    IF AssertParanoidOn /\ db /\ lastdocid # backend_lastdocid
    THEN AssertionFailed(cur, db)
    ELSE scan(cur)

\* ValueRangePostList::next(w), run with the member current equal to cur.
next_from(cur) ==
    IF AssertOn /\ ~db THEN AssertionFailed(cur, db)
    ELSE IF AssertParanoidOn /\ lastdocid # backend_lastdocid
         THEN AssertionFailed(cur, db)
         ELSE scan(cur)

\* skip_to_result without the assignment current = did - 1.
skip_to_result_no_jump(did) ==
    IF AssertOn /\ ~db THEN AssertionFailed(current, db)
    ELSE IF did <= current THEN Returned(current, db, TRUE)
    ELSE next_from(current)

\* skip_to_result without the early return for did <= current.
skip_to_result_rewinds(did) ==
    IF AssertOn /\ ~db THEN AssertionFailed(current, db)
    ELSE next_from(did - 1)

\* skip_to_result starting the scan at did instead of did - 1.
skip_to_result_off_by_one(did) ==
    IF AssertOn /\ ~db THEN AssertionFailed(current, db)
    ELSE IF did <= current THEN Returned(current, db, TRUE)
    ELSE next_from(did)

\* ValueRangePostList::skip_to(did, w_min)
skip_to_result(did) ==
    IF AssertOn /\ ~db THEN AssertionFailed(current, db)
    ELSE IF did <= current THEN Returned(current, db, TRUE)
    ELSE next_from(did - 1)

\* The try block of check(): current = did was done; is the value in range?
check_probe(did) ==
    LET doc == open_document(did, TRUE) IN
    IF ~doc.found THEN FALSE
    ELSE LET r == get_value(doc) IN r.found /\ InRange(r.v)

\* check_result without the early return for did <= current.
check_result_no_guard(did) ==
    IF AssertOn /\ ~db THEN AssertionFailed(current, db)
    ELSE IF AssertParanoidOn /\ lastdocid # backend_lastdocid
         THEN AssertionFailed(current, db)
    ELSE IF did > lastdocid THEN Returned(current, FALSE, TRUE)
    ELSE IF ~db THEN NullDeref(did)
    ELSE Examined(Returned(did, TRUE, check_probe(did)))

\* ValueRangePostList::check(did, w, valid)
check_result(did) ==
    IF AssertOn /\ ~db THEN AssertionFailed(current, db)
    ELSE IF did <= current THEN Returned(current, db, TRUE)
    ELSE IF AssertParanoidOn /\ lastdocid # backend_lastdocid
         THEN AssertionFailed(current, db)
    ELSE IF did > lastdocid THEN Returned(current, FALSE, TRUE)
    ELSE IF ~db THEN NullDeref(did)
    ELSE Examined(Returned(did, TRUE, check_probe(did)))

\* ValueRangePostList::at_end()
at_end == ~db

\* ------------------------------------------------------------ call log

\* The record of a call: `ret` is what a backend method returned, `examined`
\* the number of docids a cursor method opened a document for.
\* `moved` tells whether the call changed the cursor; `paired` marks a call
\* that directly follows its companion on the same docid: a skip_to(did) after
\* a check(did) that was not definite, a collect_document(did) after
\* request_document(did).
Call(op, did, r, ret) ==
    [op |-> op, did |-> did, term |-> "", lazy |-> FALSE, valid |-> r.valid,
     failure |-> r.failure, ret |-> ret, examined |-> r.examined,
     moved |-> (r.current # current \/ r.db # db),
     paired |-> /\ op = "skip_to"
                /\ call.op = "check" /\ call.did = did
                /\ call.failure = "none" /\ ~call.valid]

\* A call can be made while no earlier call has failed.
Running == call.failure = "none"

\* The cursor after a method ended as r.  After undefined behaviour nothing
\* is known about the members.
CursorAfter(r) ==
    IF r.failure = "UB"
    THEN current' \in 0..(MaxDoc + 1) /\ db' \in BOOLEAN
    ELSE current' = r.current /\ db' = r.db

\* ------------------------------------------------- cursor actions

\* PostList * ValueRangePostList::next(Xapian::weight)
next(w) ==
    /\ Running
    /\ LET r == next_from(current) IN
       /\ CursorAfter(r)
       /\ call' = Call("next", 0, r, "void")
       /\ yielded' = IF pure /\ r.failure = "none" /\ r.db
                     THEN Append(yielded, r.current)
                     ELSE yielded
    /\ UNCHANGED << config, backend, pure, snapshot, changes >>

\* PostList * ValueRangePostList::skip_to(Xapian::docid did, Xapian::weight w_min)
skip_to(did, w_min) ==
    /\ Running
    /\ LET r == skip_to_result(did) IN
       /\ CursorAfter(r)
       /\ call' = Call("skip_to", did, r, "void")
    /\ pure' = FALSE
    /\ yielded' = << >>
    /\ UNCHANGED << config, backend, snapshot, changes >>

\* PostList * ValueRangePostList::check(Xapian::docid did, Xapian::weight, bool &valid)
check(did, w) ==
    /\ Running
    /\ LET r == check_result(did) IN
       /\ CursorAfter(r)
       /\ call' = Call("check", did, r, "void")
    /\ pure' = FALSE
    /\ yielded' = << >>
    /\ UNCHANGED << config, backend, snapshot, changes >>

\* ------------------------------------------------- Database::Internal

\* Terms put to the backend, one for each answer it can give: a backend may
\* answer term_exists() more freshly than its frequency counter.
Terms == { "indexed", "uncounted", "deleted", "unknown" }

\* virtual bool term_exists(const string & tname) const
term_exists(tname) == tname \in { "indexed", "uncounted" }

\* virtual Xapian::doccount get_termfreq(const string & tname) const
get_termfreq(tname) == IF tname \in { "indexed", "deleted" } THEN 1 ELSE 0

\* open_post_list deciding on the frequency counter instead of term_exists.
open_post_list_by_termfreq(tname) ==
    IF get_termfreq(tname) = 0 THEN "EmptyPostList" ELSE "do_open_post_list"

\* open_post_list building a posting list only when the term exists and its
\* frequency counter is not zero.
open_post_list_needs_both(tname) ==
    IF ~term_exists(tname) \/ get_termfreq(tname) = 0
    THEN "EmptyPostList" ELSE "do_open_post_list"

\* LeafPostList * open_post_list(const string & tname) const: which of the
\* two constructions makes the posting list that is returned.
open_post_list_result(tname) ==
    IF ~term_exists(tname) THEN "EmptyPostList" ELSE "do_open_post_list"

\* An EmptyPostList is at its end from the start and holds no docids.
EmptyPostList == [at_end |-> TRUE, docids |-> << >>]

\* The record of a call of a backend method.
BackendCall(op, did, tname, failure, ret) ==
    [op |-> op, did |-> did, term |-> tname, lazy |-> FALSE, valid |-> TRUE,
     failure |-> failure, ret |-> ret, examined |-> 0, moved |-> FALSE,
     paired |-> (op = "collect_document" /\ call.op = "request_document" /\ call.did = did)]

\* How a default mutation entry point ends: { Assert(false); [return ...;] }
NotOverridden == IF AssertOn THEN "AssertionError" ELSE "none"

open_post_list(tname) ==
    /\ Running
    /\ call' = BackendCall("open_post_list", 0, tname, "none", open_post_list_result(tname))
    /\ UNCHANGED << config, backend, cursor, yielded, pure, observers >>

\* virtual void flush()
flush ==
    /\ Running
    /\ call' = BackendCall("flush", 0, "", NotOverridden, "void")
    /\ UNCHANGED << config, backend, cursor, yielded, pure, observers >>

\* virtual Xapian::docid add_document(const Xapian::Document &): return 0
add_document(document) ==
    /\ Running
    /\ call' = BackendCall("add_document", 0, "", NotOverridden, "docid")
    /\ UNCHANGED << config, backend, cursor, yielded, pure, observers >>

\* virtual void delete_document(Xapian::docid)
delete_document(did) ==
    /\ Running
    /\ call' = BackendCall("delete_document", did, "", NotOverridden, "void")
    /\ UNCHANGED << config, backend, cursor, yielded, pure, observers >>

\* virtual void replace_document(Xapian::docid, const Xapian::Document &)
replace_document(did, document) ==
    /\ Running
    /\ call' = BackendCall("replace_document", did, "", NotOverridden, "void")
    /\ UNCHANGED << config, backend, cursor, yielded, pure, observers >>

\* The call record of an open_document(did, lazy) made under the name op.
Opened(op, did, lazy) ==
    LET doc == open_document(did, lazy) IN
    BackendCall(op, did, "",
                IF doc.found THEN "none" ELSE "DocNotFoundError",
                IF ~doc.found THEN "void"
                ELSE IF doc.checked THEN "Document" ELSE "LazyDocument")

\* Database::Internal::open_document(did, lazy), called directly.
open_document_call(did, lazy) ==
    /\ Running
    /\ call' = [Opened("open_document", did, lazy) EXCEPT !.lazy = lazy]
    /\ UNCHANGED << config, backend, cursor, yielded, pure, observers >>

\* virtual void request_document(Xapian::docid) const { }
request_document(did) ==
    /\ Running
    /\ call' = BackendCall("request_document", did, "", "none", "void")
    /\ UNCHANGED << config, backend, cursor, yielded, pure, observers >>

\* collect_document opening the document lazily.
collect_document_result_lazy(did) == Opened("collect_document", did, TRUE)

\* collect_document(did) { return open_document(did); }, lazy defaults to false
collect_document_result(did) == Opened("collect_document", did, FALSE)

collect_document(did) ==
    /\ Running
    /\ call' = collect_document_result(did)
    /\ UNCHANGED << config, backend, cursor, yielded, pure, observers >>

\* ------------------------------------------------------------ behaviour

\* A backend holding documents 1..backend_lastdocid, some of them deleted,
\* and a cursor just constructed over it.
Init ==
    /\ build \in Builds
    /\ lazyMode \in LazyModes
    /\ backend_lastdocid \in 0..MaxDoc
    /\ docs \in [DocIds -> DocValues \cup { NoDoc }]
    /\ \A d \in DocIds : d > backend_lastdocid => docs[d] = NoDoc
    /\ begin \in BeginBounds
    /\ end \in EndBounds
    /\ current = 0
    /\ db = TRUE
    /\ lastdocid = backend_lastdocid
    /\ db_size = get_doccount
    /\ yielded = << >>
    /\ pure = TRUE
    /\ call = [op |-> "new", did |-> 0, term |-> "", lazy |-> FALSE, valid |-> TRUE,
               failure |-> "none", ret |-> "void", examined |-> 0, moved |-> FALSE,
               paired |-> FALSE]
    /\ snapshot = docs
    /\ changes = 0
    /\ nyield = 0

\* The cursor driven over a backend that stays as it is; the documents it
\* reports are not counted.
Next ==
    \/ \E w \in Weights : next(w) /\ UNCHANGED nyield
    \/ \E did \in Dids, w \in Weights : skip_to(did, w) /\ UNCHANGED nyield
    \/ \E did \in Dids, w \in Weights : check(did, w) /\ UNCHANGED nyield

Spec == Init /\ [][Next]_vars

\* The calls a client makes on the backend itself.
NextBackend ==
    \/ \E tname \in Terms : open_post_list(tname)
    \/ flush
    \/ \E v \in DocValues : add_document(v)
    \/ \E did \in Dids : delete_document(did)
    \/ \E did \in Dids, v \in DocValues : replace_document(did, v)
    \/ \E did \in Dids, lazy \in BOOLEAN : open_document_call(did, lazy)
    \/ \E did \in Dids : request_document(did)
    \/ \E did \in Dids : collect_document(did)

SpecBackend == Init /\ [][NextBackend]_vars

\* ------------------------------------------- a backend that changes

\* Docids of such a backend, and the docids handed to skip_to and check.
LiveDocIds == 1..MaxLiveDoc
LiveDids == 1..(MaxLiveDoc + 1)

\* Values written while a cursor is open: one inside the range, one outside.
LiveValues == { <<2, 0, 0>>, <<2, 5, 0>> }

\* The backend after one committed change: a document deleted, an existing
\* document replaced, or a document added under the next docid.
Revisions ==
    { [docs |-> [docs EXCEPT ![d] = NoDoc], lastdocid |-> backend_lastdocid] :
          d \in { x \in LiveDocIds : Exists(x) } }
    \cup
    { [docs |-> [docs EXCEPT ![dv[1]] = dv[2]], lastdocid |-> backend_lastdocid] :
          dv \in { x \in LiveDocIds \X LiveValues : Exists(x[1]) /\ docs[x[1]] # x[2] } }
    \cup
    { [docs |-> [docs EXCEPT ![backend_lastdocid + 1] = v],
       lastdocid |-> backend_lastdocid + 1] :
          v \in { x \in LiveValues : backend_lastdocid < MaxLiveDoc } }

\* The backend can still be changed in this run.
Changeable == Running /\ changes < MaxChanges

\* virtual void reopen() { /* Default is to do nothing. */ }
reopen ==
    /\ Running
    /\ call' = BackendCall("reopen", 0, "", "none", "void")
    /\ UNCHANGED << config, backend, cursor, yielded, pure, observers >>

\* reopen() of a backend that overrides it, with a newer revision committed:
\* the same Database::Internal object, the one the cursor points to, moves
\* to that revision.
reopen_newer(rev) ==
    /\ Changeable
    /\ rev \in Revisions
    /\ docs' = rev.docs
    /\ backend_lastdocid' = rev.lastdocid
    /\ changes' = changes + 1
    /\ call' = BackendCall("reopen", 0, "", "none", "newer")
    /\ UNCHANGED << config, cursor, yielded, pure, snapshot, nyield >>

\* add_document of a writable backend: the document gets the next docid.
writable_add_document(v) ==
    /\ Changeable
    /\ backend_lastdocid < MaxLiveDoc
    /\ docs' = [docs EXCEPT ![backend_lastdocid + 1] = v]
    /\ backend_lastdocid' = backend_lastdocid + 1
    /\ changes' = changes + 1
    /\ call' = BackendCall("add_document", backend_lastdocid + 1, "", "none", "docid")
    /\ UNCHANGED << config, cursor, yielded, pure, snapshot, nyield >>

\* delete_document of a writable backend.
writable_delete_document(did) ==
    /\ Changeable
    /\ Exists(did)
    /\ docs' = [docs EXCEPT ![did] = NoDoc]
    /\ changes' = changes + 1
    /\ call' = BackendCall("delete_document", did, "", "none", "void")
    /\ UNCHANGED << config, backend_lastdocid, cursor, yielded, pure, snapshot, nyield >>

\* replace_document of a writable backend, on a document that exists.
writable_replace_document(did, v) ==
    /\ Changeable
    /\ Exists(did) /\ docs[did] # v
    /\ docs' = [docs EXCEPT ![did] = v]
    /\ changes' = changes + 1
    /\ call' = BackendCall("replace_document", did, "", "none", "void")
    /\ UNCHANGED << config, backend_lastdocid, cursor, yielded, pure, snapshot, nyield >>

\* The observer counts a document when a cursor method returns with the
\* cursor moved onto a docid that it reports as a definite match.
Counted ==
    nyield' = nyield +
        (IF call'.failure = "none" /\ call'.moved /\ call'.valid /\ db' THEN 1 ELSE 0)

\* A cursor for the range from the empty string on, over a backend with
\* documents 1..backend_lastdocid, at most MaxLiveDoc, whose values are
\* LiveValues.
InitLive ==
    /\ Init
    /\ begin = EmptyStr
    /\ backend_lastdocid <= MaxLiveDoc
    /\ \A d \in DocIds : docs[d] \in LiveValues \cup { NoDoc }

NextLive ==
    \/ \E w \in Weights : next(w) /\ Counted
    \/ \E did \in LiveDids, w \in Weights : skip_to(did, w) /\ Counted
    \/ \E did \in LiveDids, w \in Weights : check(did, w) /\ Counted
    \/ reopen
    \/ \E rev \in Revisions : reopen_newer(rev)
    \/ \E v \in LiveValues : writable_add_document(v)
    \/ \E did \in LiveDocIds : writable_delete_document(did)
    \/ \E did \in LiveDocIds, v \in LiveValues : writable_replace_document(did, v)

SpecLive == InitLive /\ [][NextLive]_vars

\* ------------------------------------------------- what the cursor is for

RECURSIVE ByteLE(_, _)

\* Byte-string order: a <= b.
ByteLE(a, b) ==
    IF a = << >> THEN TRUE
    ELSE IF b = << >> THEN FALSE
    ELSE IF Head(a) # Head(b) THEN Head(a) < Head(b)
    ELSE ByteLE(Tail(a), Tail(b))

\* Docid d holds a document whose value at the slot lies in [begin, end].
Matches(d) == d \in DocIds /\ docs[d] # NoDoc /\ ByteLE(begin, docs[d]) /\ ByteLE(docs[d], end)

\* The matching docids in from..lastdocid.
MatchesFrom(from) == { d \in from..lastdocid : Matches(d) }

\* The first matching docid >= from, or 0 when there is none.
FirstMatchFrom(from) ==
    IF MatchesFrom(from) = {} THEN 0
    ELSE CHOOSE d \in MatchesFrom(from) : \A e \in MatchesFrom(from) : d <= e

\* Sequence q lists exactly the members of S, in increasing order.
ListsInOrder(q, S) ==
    /\ Len(q) = Cardinality(S)
    /\ \A i \in 1..Len(q) : q[i] \in S
    /\ \A i, j \in 1..Len(q) : i < j => q[i] < q[j]

\* ------------------------------------------------------------ properties

\* C1 (as claimed): once at_end() is true, every later call of next, skip_to
\* or check completes without a failure, changes no cursor state, and at_end()
\* stays true.
C1_TerminatedCallsAreNoOps ==
    [][~db => (call'.failure = "none" /\ current' = current /\ ~db')]_vars

\* C1 (amended): once at_end() is true it stays true after every later call
\* that does not run into undefined behaviour, but the call is not a no-op:
\* with assertions compiled in it fails Assert(db), leaving the cursor as it
\* was; without them it never fails an assertion, and next and check leave
\* current alone whenever they return (skip_to may still overwrite it).
C1_TerminatedStaysTerminated ==
    [][~db =>
        /\ call'.failure # "UB" => ~db'
        /\ AssertOn => (call'.failure = "AssertionError" /\ current' = current)
        /\ ~AssertOn => call'.failure \in { "none", "UB" }
        /\ (~AssertOn /\ call'.failure = "none" /\ call'.op # "skip_to")
               => current' = current
      ]_vars

\* C1 witness: a call of next() made on a terminated cursor.
C1_Witness == ~db /\ call.op = "next" /\ call.failure = "AssertionError"

\* C2: on a fresh cursor, repeated next() yields exactly the existing
\* documents with begin <= value <= end, each once, in increasing docid
\* order; the cursor sits on the last one yielded, and it is terminated only
\* with every docid up to lastdocid examined.
C2_NextYieldsExactlyTheMatches ==
    (pure /\ call.failure = "none") =>
        /\ ListsInOrder(yielded, { d \in 1..current : Matches(d) })
        /\ (db /\ current # 0) => Matches(current)
        /\ ~db => (current = lastdocid /\ ListsInOrder(yielded, MatchesFrom(1)))

\* C2 witness: a scan that yielded two documents, passed over another docid,
\* and terminated.
C2_Witness ==
    /\ pure /\ ~db /\ call.op = "next" /\ call.failure = "none"
    /\ Len(yielded) = 2
    /\ \E d \in 1..lastdocid : ~Matches(d)

\* C3: a docid whose document is not found is skipped by next() and
\* skip_to(): DocNotFoundError never leaves them, and the cursor ends on the
\* first matching docid after the starting point, terminated only when there
\* is none up to lastdocid.
C3_VanishedDocumentIsSkipped ==
    [][(db /\ call'.op \in { "next", "skip_to" }) =>
        LET noop == call'.op = "skip_to" /\ call'.did <= current
            from == IF call'.op = "next" THEN current + 1 ELSE call'.did
            m == FirstMatchFrom(from)
        IN /\ call'.failure = "none"
           /\ noop => (current' = current /\ db')
           /\ (~noop /\ m # 0) => (db' /\ current' = m)
           /\ (~noop /\ m = 0) => ~db'
      ]_vars

\* C3 witness: next() was called, met a docid without a document, and went
\* on to position the cursor on a later docid.
C3_Witness ==
    /\ pure /\ db /\ call.op = "next" /\ call.moved
    /\ Len(yielded) = 1
    /\ \E d \in 1..(current - 1) : ~Exists(d)

\* C4: whenever check(d, w) is definite, it reports d as matched (not at end,
\* positioned on d) exactly when skip_to(d, w) from the same state leaves the
\* cursor positioned on d.
C4_DefiniteCheckAgreesWithSkipTo ==
    [][(db /\ call'.op = "check" /\ call'.failure = "none" /\ call'.valid) =>
        LET s == skip_to_result(call'.did)
        IN (db' /\ current' = call'.did) <=> (s.db /\ s.current = call'.did)
      ]_vars

\* C6: no call moves the current docid backwards, so a call that repositions
\* the cursor takes it to a strictly larger docid.
C6_DocidNeverDecreases ==
    [][call'.failure # "UB" => current' >= current]_vars

\* C6 witness: two successive positions of one cursor.
C6_Witness == pure /\ db /\ Len(yielded) = 2 /\ call.moved

\* C7: after skip_to(d, w) returns, the cursor is terminated or its docid
\* is >= d.
C7_SkipToReachesTarget ==
    (call.op = "skip_to" /\ call.failure = "none") => (~db \/ current >= call.did)

\* C7 witness: skip_to(d) moved the cursor past a d that does not match.
C7_Witness ==
    /\ call.op = "skip_to" /\ call.failure = "none" /\ call.moved
    /\ db /\ current > call.did

\* C8: a skip_to(d, w) that follows a check(d, w) which was not definite
\* leaves the cursor terminated, or on the first existing document with
\* docid >= d whose value lies in [begin, end].
C8_SkipToAfterIndefiniteCheck ==
    (call.op = "skip_to" /\ call.paired /\ call.failure = "none") =>
        (~db \/ (current # 0 /\ current = FirstMatchFrom(call.did)))

\* C5: for a term with term_exists(t) false, open_post_list(t) does not fail
\* and returns the empty posting list, at its end from the start and without
\* docids, not the result of do_open_post_list.
C5_MissingTermGivesEmptyPostList ==
    (call.op = "open_post_list" /\ call.term \in { "deleted", "unknown" }) =>
        /\ call.failure = "none"
        /\ call.ret = "EmptyPostList"
        /\ EmptyPostList.at_end /\ EmptyPostList.docids = << >>

\* C5 witness: open_post_list of a term that is not in the backend although
\* its frequency counter is not zero.
C5_Witness == call.op = "open_post_list" /\ call.term = "deleted" /\ call.ret = "EmptyPostList"

\* C9: flush, add_document, delete_document and replace_document of a
\* backend that does not override them are always rejected with an
\* assertion failure; none returns normally.
C9_MutationIsRejected ==
    call.op \in { "flush", "add_document", "delete_document", "replace_document" }
        => call.failure = "AssertionError"

\* C10: request_document(d) changes nothing in the backend and does not
\* fail; collect_document(d) ends as open_document(d, lazy = false) does: with
\* a checked document when d exists, with DocNotFoundError when it does not.
C10_CollectIsNonLazyOpen ==
    [][/\ call'.op = "request_document" =>
            (call'.failure = "none" /\ docs' = docs
                /\ backend_lastdocid' = backend_lastdocid)
       /\ call'.op = "collect_document" =>
            /\ docs' = docs /\ backend_lastdocid' = backend_lastdocid
            /\ Exists(call'.did) => (call'.failure = "none" /\ call'.ret = "Document")
            /\ ~Exists(call'.did) => call'.failure = "DocNotFoundError"
            /\ call'.failure = Opened("open_document", call'.did, FALSE).failure
            /\ call'.ret = Opened("open_document", call'.did, FALSE).ret
            /\ call'.paired = (call.op = "request_document" /\ call.did = call'.did)
      ]_vars

\* C10 witness: collect_document(d) of a missing document right after
\* request_document(d), on a backend that honours the lazy flag.
C10_Witness ==
    /\ call.op = "collect_document" /\ call.paired /\ call.failure = "DocNotFoundError"
    /\ lazyMode # "eager"

\* ---------------------------------------------------------------- C12
\* C12: open_document(d, lazy = true) never ends in DocNotFoundError at open
\* time, whatever the docid and the backend variant; for a missing document
\* the error is raised when the handle is first read; open_document(d, lazy =
\* false) reports a missing document at once, and only a missing one.
C12_LazyOpenDefersNotFound ==
    call.op = "open_document" =>
        IF call.lazy
        THEN /\ call.failure = "none"
             /\ ~Exists(call.did) =>
                    ~get_value([found |-> TRUE, did |-> call.did, checked |-> FALSE]).found
        ELSE call.failure = "DocNotFoundError" <=> ~Exists(call.did)

\* ------------------------------------------------------ const accessors

\* The outcome of a const method of the cursor: the value it returns, or the
\* assertion it fails.  These methods change nothing, so each is a function
\* of the state it is called in.
Gives(v) == [failure |-> "none", value |-> v]
Refuses == [failure |-> "AssertionError", value |-> 0]

\* Xapian::docid get_docid() const { Assert(current); Assert(db); return current; }
get_docid ==
    IF AssertOn /\ current = 0 THEN Refuses
    ELSE IF AssertOn /\ ~db THEN Refuses
    ELSE Gives(current)

\* A matching document weighing one unit.
get_weight_unit == IF AssertOn /\ ~db THEN Refuses ELSE Gives(1)

\* Xapian::weight get_weight() const { Assert(db); return 0; }
get_weight == IF AssertOn /\ ~db THEN Refuses ELSE Gives(0)

\* Xapian::doclength get_doclength() const { Assert(db); return 0; }
get_doclength == IF AssertOn /\ ~db THEN Refuses ELSE Gives(0)

\* ---------------------------------------------------------------- C13
\* C13: get_docid(), get_weight() and get_doclength() each fail an assertion
\* whenever the cursor is Unstarted (current = 0) or Terminated, and return
\* normally only when it is Positioned.
C13_AccessorsRefuseOutsidePositioned ==
    LET Positioned == db /\ current # 0 IN
    /\ get_docid.failure = "none" <=> Positioned
    /\ get_weight.failure = "none" <=> Positioned
    /\ get_doclength.failure = "none" <=> Positioned

\* ------------------------------------------------- cardinality bounds

\* Xapian::doccount get_termfreq_min() const { return 0; }
get_termfreq_min == Gives(0)

\* The estimate taken from the docid range instead of half the document count.
get_termfreq_est_by_lastdocid == Gives(lastdocid)

\* get_termfreq_est(): AssertParanoid(!db || db_size == db->get_doccount());
\* return db_size / 2;
get_termfreq_est ==
    IF AssertParanoidOn /\ ~(~db \/ db_size = get_doccount) THEN Refuses
    ELSE Gives(db_size \div 2)

\* The upper bound read from the backend at each call instead of from db_size.
get_termfreq_max_uncached == Gives(get_doccount)

\* get_termfreq_max(): AssertParanoid(!db || db_size == db->get_doccount());
\* return db_size;
get_termfreq_max ==
    IF AssertParanoidOn /\ ~(~db \/ db_size = get_doccount) THEN Refuses
    ELSE Gives(db_size)

\* ---------------------------------------------------------------- C14
\* C14: in every reachable state of the cursor and for every collection size,
\* the values returned satisfy
\* get_termfreq_min() <= get_termfreq_est() <= get_termfreq_max().
C14_TermfreqBoundsAreOrdered ==
    ( /\ get_termfreq_min.failure = "none"
      /\ get_termfreq_est.failure = "none"
      /\ get_termfreq_max.failure = "none" ) =>
        /\ get_termfreq_min.value <= get_termfreq_est.value
        /\ get_termfreq_est.value <= get_termfreq_max.value

\* A positioned cursor over three documents or more: the three values are
\* returned and differ.
C14_Witness ==
    /\ db /\ current # 0 /\ db_size >= 3
    /\ call.op \in { "next", "skip_to", "check" }
    /\ get_termfreq_min.failure = "none"
    /\ get_termfreq_min.value < get_termfreq_est.value
    /\ get_termfreq_est.failure = "none"
    /\ get_termfreq_est.value < get_termfreq_max.value
    /\ get_termfreq_max.failure = "none"

\* ----------------------------------------------------------- weights

\* Xapian::weight get_maxweight() const { return 0; }
get_maxweight == Gives(0)

\* Xapian::weight recalc_maxweight() { Assert(db); return 0; }
recalc_maxweight == IF AssertOn /\ ~db THEN Refuses ELSE Gives(0)

\* ---------------------------------------------------------------- C19
\* C19: get_maxweight() is an upper bound: in every Positioned state
\* get_weight() <= get_maxweight(), and recalc_maxweight() never returns more
\* than the bound get_maxweight() reported before (which is the same in every
\* state, so the bound of the present state stands for every earlier one).
C19_MaxWeightIsAnUpperBound ==
    /\ (db /\ current # 0 /\ get_weight.failure = "none") =>
           get_weight.value <= get_maxweight.value
    /\ recalc_maxweight.failure = "none" =>
           recalc_maxweight.value <= get_maxweight.value

\* A cursor positioned by next, skip_to or check, where both weights are
\* returned.
C19_Witness ==
    /\ db /\ current # 0
    /\ call.op \in { "next", "skip_to", "check" } /\ call.failure = "none"
    /\ get_weight.failure = "none"
    /\ recalc_maxweight.failure = "none"

\* ---------------------------------------------------------------- C17
\* C17: open_post_list decides on term_exists alone.  A term with
\* term_exists(t) false and get_termfreq(t) > 0 gets the empty posting list;
\* a term with term_exists(t) true gets the posting list built by
\* do_open_post_list, whatever get_termfreq(t) returns.
C17_TermExistsAloneDecides ==
    call.op = "open_post_list" =>
        /\ call.failure = "none"
        /\ (~term_exists(call.term) /\ get_termfreq(call.term) > 0) =>
               call.ret = "EmptyPostList"
        /\ term_exists(call.term) => call.ret = "do_open_post_list"

\* C17 witness: a term that exists although its frequency counter is zero is
\* opened through do_open_post_list.
C17_Witness ==
    /\ call.op = "open_post_list"
    /\ term_exists(call.term) /\ get_termfreq(call.term) = 0
    /\ call.ret = "do_open_post_list"

\* ---------------------------------------------------------------- C18
\* C18: skip_to(d, w) on a cursor that is not terminated and whose current
\* docid is already >= d changes nothing: it returns, current and the
\* terminated flag stay as they were, and no document is opened.
C18_SkipToBehindIsANoOp ==
    [][ (db /\ call'.op = "skip_to" /\ call'.did <= current) =>
            /\ call'.failure = "none"
            /\ current' = current /\ db' = db
            /\ call'.examined = 0 ]_vars

\* C18 witness: a skip_to(d) that found the live cursor at or past d.
C18_Witness ==
    /\ call.op = "skip_to" /\ call.failure = "none"
    /\ db /\ current # 0 /\ call.did <= current
    /\ ~call.moved /\ call.examined = 0

\* ---------------------------------------------------------------- C20
\* The number of next() calls a cursor can still take before it is
\* terminated: lastdocid - current + 1 while it is live, none afterwards.
NextCallsLeft == IF db THEN lastdocid - current + 1 ELSE 0

\* C20: a next() on a cursor that is not terminated returns after examining
\* at most lastdocid - current docids; it leaves the cursor terminated or on a
\* larger docid that is at most lastdocid, so that at most
\* lastdocid - current + 1 calls of next() terminate the cursor; and it
\* terminates the cursor exactly when no docid in (current, lastdocid] holds
\* an existing document whose value is in range.
C20_NextIsBounded ==
    [][ (db /\ call'.op = "next") =>
            /\ call'.failure = "none"
            /\ call'.examined <= lastdocid - current
            /\ db' => (current < current' /\ current' <= lastdocid)
            /\ NextCallsLeft' < NextCallsLeft
            /\ ~db' <=> MatchesFrom(current + 1) = {} ]_vars

\* C20 witness: a next() that examined two docids or more, none of them a
\* match, and terminated the cursor.
C20_Witness ==
    /\ call.op = "next" /\ call.failure = "none"
    /\ call.moved /\ call.examined >= 2
    /\ ~db /\ current = lastdocid

\* ---------------------------------------------------------------- C11
\* Docid d held, when the cursor was constructed, a document whose value at
\* the slot lies in [begin, end].
MatchedAtConstruction(d) ==
    d \in DocIds /\ snapshot[d] # NoDoc
    /\ ByteLE(begin, snapshot[d]) /\ ByteLE(snapshot[d], end)

\* The first docid >= from that matched at construction, or 0.
FirstSnapshotMatchFrom(from) ==
    LET S == { d \in from..lastdocid : MatchedAtConstruction(d) } IN
    IF S = {} THEN 0 ELSE CHOOSE d \in S : \A x \in S : d <= x

\* The last call was a reopen() that moved the backend to a newer revision,
\* the only change of the backend since the cursor was constructed.
JustReopened == call.op = "reopen" /\ call.ret = "newer" /\ changes = 1

\* C11: after a reopen() of the backend between two operations of a cursor,
\* also one that moved the backend to a newer revision, the cursor goes on as
\* if reopen had not been called: next() returns, on the first docid after
\* current that matched in the store the cursor was opened on, terminated
\* when there is none.
C11_ReopenKeepsSnapshot ==
    [][ (db /\ JustReopened /\ call'.op = "next") =>
            LET m == FirstSnapshotMatchFrom(current + 1) IN
            /\ call'.failure = "none"
            /\ IF m = 0 THEN ~db' ELSE db' /\ current' = m ]_vars

\* ---------------------------------------------------------------- C15
\* C15: across any sequence of next, skip_to and check, and of changes of the
\* backend in between, none of get_termfreq_min(), get_termfreq_est() and
\* get_termfreq_max() returns a value larger than it returned in the state
\* before.
C15_TermfreqNeverGrows ==
    [][ /\ (get_termfreq_min.failure = "none" /\ get_termfreq_min'.failure = "none")
            => get_termfreq_min'.value <= get_termfreq_min.value
        /\ (get_termfreq_est.failure = "none" /\ get_termfreq_est'.failure = "none")
            => get_termfreq_est'.value <= get_termfreq_est.value
        /\ (get_termfreq_max.failure = "none" /\ get_termfreq_max'.failure = "none")
            => get_termfreq_max'.value <= get_termfreq_max.value ]_vars

\* C15 witness: the cursor was advanced after the backend had grown, and the
\* three values are returned.
C15_Witness ==
    /\ changes > 0 /\ get_doccount > db_size /\ db_size >= 1
    /\ call.op \in { "next", "skip_to", "check" } /\ call.failure = "none" /\ call.moved
    /\ get_termfreq_min.failure = "none"
    /\ get_termfreq_est.failure = "none"
    /\ get_termfreq_max.failure = "none"

\* ---------------------------------------------------------------- C16
\* C16: the bounds are true bounds, also while documents are deleted,
\* replaced or added in the backend: the number of documents the cursor
\* yields from any point on is at least get_termfreq_min() and at most
\* get_termfreq_max().  Both values are the same at every point of a cursor's
\* life, so the documents yielded since construction are counted against them.
C16_TermfreqBoundsAreTrueBounds ==
    /\ get_termfreq_min.failure = "none" => get_termfreq_min.value <= nyield
    /\ get_termfreq_max.failure = "none" => nyield <= get_termfreq_max.value

\* ---------------------------------------------------------------- C21
RECURSIVE next_until(_, _)

\* next(w) called again and again, starting with the member current equal to
\* cur, until a call fails, terminates the cursor or leaves it on a docid
\* >= did: what the last call left behind.
next_until(cur, did) ==
    LET r == next_from(cur) IN
    IF r.failure # "none" \/ ~r.db \/ r.current >= did THEN r
    ELSE next_until(r.current, did)

\* C21: on a cursor that is not terminated, over a backend that does not
\* change, skip_to(d, w) with d greater than the current docid ends as
\* next(w) repeated until the cursor is terminated or on a docid >= d ends:
\* the same at_end() and, when not at the end, the same get_docid().
C21_SkipToIsRepeatedNext ==
    [][ (db /\ call'.op = "skip_to" /\ call'.did > current) =>
            LET r == next_until(current, call'.did) IN
            /\ call'.failure = "none" /\ r.failure = "none"
            /\ at_end' = ~r.db
            /\ ~at_end' => current' = r.current ]_vars

\* C21 witness: a skip_to(d) that moved the cursor past d, onto a later
\* match.
C21_Witness ==
    /\ call.op = "skip_to" /\ call.failure = "none" /\ call.moved
    /\ db /\ current > call.did /\ call.examined >= 2

\* ---------------------------------------------------------------- C22
\* C22: after any sequence of next, skip_to and check calls, whenever the
\* cursor is not at its end and current is not 0, 1 <= current <= lastdocid
\* and the document with docid current exists with begin <= value <= end;
\* get_docid() never returns a docid that does not match, also right after a
\* check() that reported valid = false.
C22_PositionedDocidMatches ==
    (call.failure # "UB" /\ ~at_end /\ current # 0) =>
        /\ 1 <= current /\ current <= lastdocid
        /\ Matches(current)
        /\ get_docid.failure = "none" => Matches(get_docid.value)

\* ---------------------------------------------------------------- C23
\* Docid d holds a document without a value at the slot.
AbsentValue(d) == Exists(d) /\ docs[d] = EmptyStr

\* C23: with an empty begin bound next() takes an absent (empty) value as
\* inside the range: it passes over no existing document without a value,
\* and it never yields a docid for which the non-lazy open reports
\* not-found.  With a begin bound that is not empty it never yields a
\* document without a value.
C23_AbsentValueUnderEmptyBegin ==
    [][ (db /\ call'.op = "next" /\ call'.failure = "none") =>
            LET reached == IF db' THEN current' - 1 ELSE lastdocid IN
            /\ begin = EmptyStr =>
                   \A d \in (current + 1)..reached : ~AbsentValue(d)
            /\ db' => open_document(current', FALSE).found
            /\ (db' /\ begin # EmptyStr) => ~AbsentValue(current') ]_vars

\* C23 witness: under an empty begin bound, over a backend whose lazily
\* opened missing document reads as empty, next() passed over the missing
\* docid 1 and yielded a document without a value.
C23_Witness ==
    /\ begin = EmptyStr /\ lazyMode = "empty"
    /\ pure /\ call.op = "next" /\ call.failure = "none"
    /\ db /\ ~Exists(1) /\ AbsentValue(current)
    /\ yielded = << current >>

\* ---------------------------------------------------------------- C24
\* C24: however add_document, delete_document and replace_document are
\* interleaved with the operations of a live cursor, the cursor's cached
\* lastdocid equals the backend's last docid whenever next() or check() runs:
\* the assertion lastdocid == db->get_lastdocid() at their entry never fails.
C24_CachedLastDocidIsCurrent ==
    [][ (db /\ call'.op \in { "next", "check" }) =>
            /\ lastdocid = backend_lastdocid
            /\ call'.failure # "AssertionError" ]_vars

====
